---- MODULE Spec2Model ----
(***************************************************************************)
(* Message routing and delivery of the mango MQTT container and its agents *)
(* (mango/container/mqtt.py, mango/core/agent.py): subscriptions, routing, *)
(* sending, the agents' consumer loops, scheduled tasks and shutdown.      *)
(*                                                                         *)
(* Two execution domains are modelled: the paho network thread (on_sub,    *)
(* on_msg) and the asyncio event loop (everything else).  A hand-over from *)
(* the first to the second is an entry of `posted`, the loop's queue of    *)
(* call_soon_threadsafe callbacks.                                         *)
(***************************************************************************)
EXTENDS Integers, Sequences, FiniteSets, TLC

\* ------------------------------------------------------------------ bounds
MaxAgents == 2      \* agents ever constructed
MaxCalls == 2       \* subscribe_for_agent invocations
MaxMsgs == 2        \* messages ever created (broker arrivals, sends, direct puts)
MaxShutdowns == 2   \* shutdown() calls per agent
MaxTasks == 2       \* tasks ever scheduled

\* ------------------------------------------------------------- value sets
None == 0                         \* Python's None for ids and futures
Aids == 1 .. MaxAgents            \* "agent<k>" is modelled by k
InboxTopic == <<"in">>            \* self.inbox_topic / self.addr
\* topics are sequences of levels ("s/+" is <<"s", "+">>)
SubTopics == {<<"s", "+">>, <<"#">>, InboxTopic}
MsgTopics == {<<"s", "a">>, <<"t">>, InboxTopic}
MQTT_ERR_SUCCESS == 0
MQTT_ERR_NO_CONN == 4
NoClass == "None"                 \* expected_class=None
ExpectedClasses == {NoClass, "ACLMessage"}

VARIABLES
    agents,                 \* keys of Container._agents
    aidCounter,             \* Container._aid_counter (next aid)
    running,                \* Container.running
    additional_subscriptions,   \* dict: topic -> set of aids
    subscriptions_to_class,     \* dict: topic -> expected class
    pending_sub_request,    \* the Future in self.pending_sub_request, or None
    futures,                \* futures[f]: state of the f-th asyncio.Future created
    calls,                  \* subscribe_for_agent invocations, in call order
    acks,                   \* SUBACKs the broker still has to deliver (call ids)
    ackSeen,                \* call ids whose SUBACK has reached on_sub
    posted,                 \* loop callbacks queued by call_soon_threadsafe
    subCalls,               \* mqtt_client.subscribe calls per topic
    unsubCalls,             \* mqtt_client.unsubscribe calls per topic
    inbox,                  \* Container.inbox (intake queue)
    agentInbox,             \* Agent.inbox of every agent
    loopState,              \* Agent._check_inbox_task of every agent
    stopped,                \* Agent.stopped is done
    handled,                \* handle_msg invocations of every agent, in order
    putLog,                 \* entries put into every agent inbox, in order
    msgCount,               \* messages created so far (content ids)
    sends,                  \* send_message calls as requested by the caller
    published,              \* mqtt_client.publish calls
    shutdowns,              \* Agent.shutdown calls of every agent, in call order
    scheduler_stopped,      \* Scheduler.stop() was called on the agent's Scheduler
    scheduler_tasks,        \* active set of the agent's Scheduler (task ids)
    _scheduled_tasks,       \* Agent._scheduled_tasks (task ids)
    tasks,                  \* tasks created by schedule_task, in creation order
    waits,                  \* what tasks_complete calls found running when they returned
    netLoop,                \* the paho network thread started by loop_start: "running",
                            \* or the exception that ended it
    subscribed              \* broker side: topics subscribed for this client

subVars == <<additional_subscriptions, subscriptions_to_class, pending_sub_request,
             futures, calls, acks, ackSeen, subCalls, unsubCalls>>
regVars == <<agents, aidCounter, running>>
agentVars == <<agentInbox, loopState, stopped, handled, putLog>>
msgVars == <<inbox, msgCount, sends, published>>
lifeVars == <<shutdowns, scheduler_stopped, scheduler_tasks, _scheduled_tasks, tasks, waits>>
brokerVars == <<netLoop, subscribed>>
vars == <<regVars, subVars, posted, agentVars, msgVars, lifeVars, brokerVars>>

\* ------------------------------------------------------------ dict helpers
DictSet(d, k, v) == [x \in (DOMAIN d) \cup {k} |-> IF x = k THEN v ELSE d[x]]
DictDel(d, ks) == [x \in (DOMAIN d) \ ks |-> d[x]]
EmptyDict == [x \in {} |-> {}]
Last(q) == q[Len(q)]

Init ==
    /\ agents = {}
    /\ aidCounter = 1
    /\ running = TRUE
    /\ additional_subscriptions = EmptyDict
    /\ subscriptions_to_class = EmptyDict
    /\ pending_sub_request = None
    /\ futures = <<>>
    /\ calls = <<>>
    /\ acks = <<>>
    /\ ackSeen = {}
    /\ posted = <<>>
    /\ subCalls = [t \in SubTopics |-> 0]
    /\ unsubCalls = [t \in SubTopics |-> 0]
    /\ inbox = <<>>
    /\ agentInbox = [a \in Aids |-> <<>>]
    /\ loopState = [a \in Aids |-> "none"]
    /\ stopped = [a \in Aids |-> FALSE]
    /\ handled = [a \in Aids |-> <<>>]
    /\ putLog = [a \in Aids |-> <<>>]
    /\ msgCount = 0
    /\ sends = <<>>
    /\ published = <<>>
    /\ shutdowns = [a \in Aids |-> <<>>]
    /\ scheduler_stopped = [a \in Aids |-> FALSE]
    /\ scheduler_tasks = [a \in Aids |-> {}]
    /\ _scheduled_tasks = [a \in Aids |-> {}]
    /\ tasks = <<>>
    /\ waits = {}
    /\ netLoop = "running"
    /\ subscribed = {}

\* the base container's registry (mango.container.core, not part of the
\* sources at hand): _register_agent stores the agent under a fresh aid,
\* deregister_agent removes it
RegistryWith(registry, aid) == registry \cup {aid}
RegistryWithout(registry, aid) == registry \ {aid}

\* Agent.__init__: container._register_agent(self), a fresh inbox, the
\* consumer task _check_inbox is started
Register ==
    /\ aidCounter <= MaxAgents
    /\ agents' = RegistryWith(agents, aidCounter)
    /\ aidCounter' = aidCounter + 1
    /\ loopState' = [loopState EXCEPT ![aidCounter] = "running"]
    /\ UNCHANGED <<running, subVars, posted, agentInbox, stopped, handled, putLog, msgVars>>
    /\ UNCHANGED <<lifeVars, brokerVars>>

\* ------------------------------------------------- subscribe_for_agent
\* one invocation of subscribe_for_agent, as the caller sees it
CallRec(aid, topic, pc, fut, result) ==
    [aid |-> aid, topic |-> topic, pc |-> pc, fut |-> fut, result |-> result]

\* if expected_class: self.subscriptions_to_class[topic] = expected_class
SetExpectedClass(d, topic, expected_class) ==
    IF expected_class # NoClass THEN DictSet(d, topic, expected_class) ELSE d

\* self.additional_subscriptions[topic].add(aid)
AddSubscriber(subs, topic, aid) == DictSet(subs, topic, subs[topic] \cup {aid})

\* self.additional_subscriptions[topic] = {aid}
NewSubscription(subs, topic, aid) == DictSet(subs, topic, {aid})

\* faulty variant: the expected class is stored before the aid is checked
ClassesAfterUnknownAidStored(d, topic, expected_class) ==
    SetExpectedClass(d, topic, expected_class)

\* the aid is checked before expected_class is looked at
ClassesAfterUnknownAid(d, topic, expected_class) == d

\* aid unknown: raise ValueError before anything is changed
SubscribeUnknownAgent(aid, topic, expected_class) ==
    /\ aid \notin agents
    /\ subscriptions_to_class' = ClassesAfterUnknownAid(subscriptions_to_class, topic, expected_class)
    /\ calls' = Append(calls, CallRec(aid, topic, "raised", None, FALSE))
    /\ UNCHANGED <<agentVars, msgVars, regVars, posted, additional_subscriptions,
                   pending_sub_request, futures, acks, ackSeen, subCalls, unsubCalls>>
    /\ UNCHANGED <<lifeVars, brokerVars>>

\* topic already has an entry: add the aid, return True, no broker call
SubscribeKnownTopic(aid, topic, expected_class) ==
    /\ aid \in agents
    /\ topic \in DOMAIN additional_subscriptions
    /\ subscriptions_to_class' = SetExpectedClass(subscriptions_to_class, topic, expected_class)
    /\ additional_subscriptions' = AddSubscriber(additional_subscriptions, topic, aid)
    /\ calls' = Append(calls, CallRec(aid, topic, "returned", None, TRUE))
    /\ UNCHANGED <<agentVars, msgVars, regVars, posted, pending_sub_request, futures, acks, ackSeen,
                   subCalls, unsubCalls>>
    /\ UNCHANGED <<lifeVars, brokerVars>>

\* faulty variant: a rejected subscribe leaves the Future unresolved
FutureAfterSubscribeUnresolved(result) == "pending"

\* if result != paho.MQTT_ERR_SUCCESS: self.pending_sub_request.set_result(False)
FutureAfterSubscribe(result) == IF result # MQTT_ERR_SUCCESS THEN "done" ELSE "pending"

\* new topic: create the entry and a fresh Future, call mqtt_client.subscribe;
\* rejected: resolve the Future with False and return False;
\* accepted: suspend on the Future (the broker owes a SUBACK for this call)
SubscribeNewTopic(aid, topic, expected_class, result) ==
    /\ aid \in agents
    /\ topic \notin DOMAIN additional_subscriptions
    /\ subscriptions_to_class' = SetExpectedClass(subscriptions_to_class, topic, expected_class)
    /\ additional_subscriptions' = NewSubscription(additional_subscriptions, topic, aid)
    /\ pending_sub_request' = Len(futures) + 1
    /\ subCalls' = [subCalls EXCEPT ![topic] = @ + 1]
    /\ futures' = Append(futures, FutureAfterSubscribe(result))
    /\ IF result # MQTT_ERR_SUCCESS
       THEN /\ calls' = Append(calls, CallRec(aid, topic, "returned", Len(futures) + 1, FALSE))
            /\ acks' = acks
       ELSE /\ calls' = Append(calls, CallRec(aid, topic, "awaiting", Len(futures) + 1, TRUE))
            /\ acks' = Append(acks, Len(calls) + 1)
    /\ subscribed' = IF result = MQTT_ERR_SUCCESS THEN subscribed \cup {topic} ELSE subscribed
    /\ UNCHANGED <<agentVars, msgVars, regVars, posted, ackSeen, unsubCalls>>
    /\ UNCHANGED <<lifeVars, netLoop>>

subscribe_for_agent ==
    /\ Len(calls) < MaxCalls
    /\ \E aid \in Aids, topic \in SubTopics, expected_class \in ExpectedClasses :
        \/ SubscribeUnknownAgent(aid, topic, expected_class)
        \/ SubscribeKnownTopic(aid, topic, expected_class)
        \/ \E result \in {MQTT_ERR_SUCCESS, MQTT_ERR_NO_CONN} :
            SubscribeNewTopic(aid, topic, expected_class, result)

\* await self.pending_sub_request completes once the call's Future is done
SubscribeResume ==
    \E c \in DOMAIN calls :
        /\ calls[c].pc = "awaiting"
        /\ futures[calls[c].fut] = "done"
        /\ calls' = [calls EXCEPT ![c].pc = "returned"]
        /\ UNCHANGED <<agentVars, msgVars, regVars, posted, additional_subscriptions, subscriptions_to_class,
                       pending_sub_request, futures, acks, ackSeen, subCalls, unsubCalls>>
        /\ UNCHANGED <<lifeVars, brokerVars>>

\* ------------------------------------------------------- broker thread
\* on_sub: posts set_result of the Future that self.pending_sub_request holds
\* when the callback runs (AttributeError in the network thread if it is None)
OnSubTarget(pending) == pending

\* Future.set_result: InvalidStateError (logged by the loop) if already done
SetResult(futs, f) == IF futs[f] = "pending" THEN [futs EXCEPT ![f] = "done"] ELSE futs

\* faulty variant: on_sub calls set_result itself, in the network thread
FuturesAfterOnSubDirect(futs, pending) ==
    IF pending = None THEN futs ELSE SetResult(futs, pending)

\* on_sub only hands set_result to call_soon_threadsafe: the Future is not
\* touched in the network thread
FuturesAfterOnSub(futs, pending) == futs

on_sub ==
    /\ running
    /\ netLoop = "running"
    /\ acks # <<>>
    /\ acks' = Tail(acks)
    /\ ackSeen' = ackSeen \cup {Head(acks)}
    /\ posted' = IF pending_sub_request = None THEN posted
                 ELSE Append(posted, [kind |-> "set_result",
                                      fut |-> OnSubTarget(pending_sub_request)])
    /\ futures' = FuturesAfterOnSub(futures, pending_sub_request)
    /\ UNCHANGED <<agentVars, msgVars, regVars, additional_subscriptions, subscriptions_to_class,
                   pending_sub_request, calls, subCalls, unsubCalls>>
    /\ UNCHANGED <<lifeVars, brokerVars>>

\* ---------------------------------------------------------- event loop
\* the loop runs the next callback posted from the network thread
RunPosted ==
    /\ posted # <<>>
    /\ posted' = Tail(posted)
    /\ IF Head(posted).kind = "set_result"
       THEN /\ futures' = SetResult(futures, Head(posted).fut)
            /\ inbox' = inbox
       ELSE /\ inbox' = Append(inbox, Head(posted).entry)      \* inbox.put_nowait
            /\ futures' = futures
    /\ UNCHANGED <<agentVars, regVars, additional_subscriptions, subscriptions_to_class,
                   pending_sub_request, calls, acks, ackSeen, subCalls, unsubCalls,
                   msgCount, sends, published>>
    /\ UNCHANGED <<lifeVars, brokerVars>>

\* ------------------------------------------------------ deregister_agent
\* faulty variant: the aid is dropped only where it is the sole subscriber
AidSetsWithoutSoleOnly(subs, aid) ==
    [t \in DOMAIN subs |-> IF subs[t] = {aid} THEN {} ELSE subs[t]]

\* faulty variant: an entry counts as empty while one subscriber is left
EmptySubscriptionsOffByOne(subs) == {t \in DOMAIN subs : Cardinality(subs[t]) <= 1}

\* for every entry: drop the aid; collect the entries whose set is now empty
AidSetsWithout(subs, aid) == [t \in DOMAIN subs |-> subs[t] \ {aid}]
EmptySubscriptions(subs) == {t \in DOMAIN subs : Cardinality(subs[t]) = 0}

\* pop every empty entry
RemoveSubscriber(subs, aid) ==
    DictDel(AidSetsWithout(subs, aid), EmptySubscriptions(AidSetsWithout(subs, aid)))

\* mqtt_client.unsubscribe(topic=subscription) for every popped entry
Unsubscribed(subs, aid) == EmptySubscriptions(AidSetsWithout(subs, aid))

deregister_agent(aid) ==
    /\ aid \in agents
    /\ agents' = RegistryWithout(agents, aid)      \* super().deregister_agent(aid)
    /\ additional_subscriptions' = RemoveSubscriber(additional_subscriptions, aid)
    /\ unsubCalls' = [t \in SubTopics |->
                        IF t \in Unsubscribed(additional_subscriptions, aid)
                        THEN unsubCalls[t] + 1 ELSE unsubCalls[t]]
    /\ subscribed' = subscribed \ Unsubscribed(additional_subscriptions, aid)
    /\ UNCHANGED <<aidCounter, running, posted, subscriptions_to_class,
                   pending_sub_request, futures, calls, acks, ackSeen, subCalls>>
    /\ UNCHANGED netLoop

\* container.deregister_agent(aid) called directly
Deregister ==
    /\ \E aid \in Aids : deregister_agent(aid)
    /\ UNCHANGED <<agentVars, msgVars>>
    /\ UNCHANGED lifeVars

\* ------------------------------------------------------- Agent.shutdown
\* self._check_inbox_task.cancel(): the task is suspended in inbox.get() (the
\* handler is synchronous), so it ends cancelled without another turn
CancelLoop(state) == IF state = "running" THEN "cancelled" ELSE state

\* shutdown up to its first suspension point: stopped is set; the agent is
\* deregistered while the container runs; the consumer task is cancelled and
\* awaited.  What the base class's deregister_agent does with an aid that is
\* no longer registered is not visible here: shutdown either goes on to
\* cancel the task or is left by an error before it.  An agent has one
\* shutdown() call in progress at a time.
AgentShutdown ==
    \E a \in Aids :
        /\ loopState[a] # "none"
        /\ Len(shutdowns[a]) < MaxShutdowns
        /\ (shutdowns[a] # <<>> => Last(shutdowns[a]) # "awaiting")
        /\ stopped' = [stopped EXCEPT ![a] = TRUE]
        /\ IF running /\ a \in agents
           THEN /\ deregister_agent(a)
                /\ loopState' = [loopState EXCEPT ![a] = CancelLoop(@)]
                /\ shutdowns' = [shutdowns EXCEPT ![a] = Append(@, "awaiting")]
           ELSE /\ \E goesOn \in (IF running THEN BOOLEAN ELSE {TRUE}) :
                     /\ loopState' = IF goesOn THEN [loopState EXCEPT ![a] = CancelLoop(@)]
                                     ELSE loopState
                     /\ shutdowns' = [shutdowns EXCEPT ![a] =
                                        Append(@, IF goesOn THEN "awaiting" ELSE "raised")]
                /\ UNCHANGED <<regVars, subVars, posted, brokerVars>>
        /\ UNCHANGED <<agentInbox, handled, putLog, msgVars>>
        /\ UNCHANGED <<scheduler_stopped, scheduler_tasks, _scheduled_tasks, tasks, waits>>

\* await self._check_inbox_task: a cancelled task raises CancelledError into
\* the awaiting coroutine, a failed one its exception; _check_inbox never
\* returns a result
AwaitTask(state) ==
    IF state = "cancelled" THEN "CancelledError"
    ELSE IF state = "failed" THEN "Exception"
    ELSE "result"

\* Scheduler.stop() (mango.util.scheduling, not part of the sources at hand):
\* cancels every task of the Scheduler's active set
SchedulerStop(ts, active) ==
    [t \in DOMAIN ts |-> IF t \in active /\ ts[t].state = "running"
                         THEN [ts[t] EXCEPT !.state = "cancelled"] ELSE ts[t]]

\* shutdown after the await: `await self._scheduler.stop()` follows the await
\* of the task inside the same try block, so it runs only if that await
\* returns; CancelledError is swallowed, any other exception leaves shutdown
ShutdownResume ==
    \E a \in Aids :
        /\ shutdowns[a] # <<>>
        /\ Last(shutdowns[a]) = "awaiting"
        /\ loopState[a] # "running"
        /\ LET outcome == AwaitTask(loopState[a])
           IN  /\ scheduler_stopped' =
                      [scheduler_stopped EXCEPT ![a] = @ \/ outcome = "result"]
               /\ tasks' = IF outcome = "result" THEN SchedulerStop(tasks, scheduler_tasks[a])
                           ELSE tasks
               /\ scheduler_tasks' = IF outcome = "result"
                                     THEN [scheduler_tasks EXCEPT ![a] = {}]
                                     ELSE scheduler_tasks
               /\ shutdowns' = [shutdowns EXCEPT ![a][Len(shutdowns[a])] =
                                  IF outcome = "Exception" THEN "raised" ELSE "returned"]
        /\ UNCHANGED <<regVars, subVars, posted, agentVars, msgVars, brokerVars,
                       _scheduled_tasks, waits>>

\* ------------------------------------------------------- scheduled tasks
\* schedule_task: the asyncio task is created and appended to
\* self._scheduled_tasks; the agent's Scheduler is not involved
schedule_task ==
    /\ Len(tasks) < MaxTasks
    /\ \E a \in Aids :
        /\ loopState[a] # "none"
        /\ tasks' = Append(tasks, [aid |-> a, state |-> "running"])
        /\ _scheduled_tasks' = [_scheduled_tasks EXCEPT ![a] = @ \cup {Len(tasks) + 1}]
    /\ UNCHANGED <<regVars, subVars, posted, agentVars, msgVars, brokerVars,
                   shutdowns, scheduler_stopped, scheduler_tasks, waits>>

\* the done callback `lambda: self._scheduled_tasks.remove(l_task)` is called
\* with the task as its argument and takes none: TypeError, nothing is removed
ScheduledAfterDone(scheduled, t) == scheduled

\* a task ends (its coroutine returns, raises, or the task is cancelled) and
\* its done callbacks run
TaskEnds ==
    \E t \in DOMAIN tasks, outcome \in {"done", "cancelled", "failed"} :
        /\ tasks[t].state = "running"
        /\ tasks' = [tasks EXCEPT ![t].state = outcome]
        /\ _scheduled_tasks' = [_scheduled_tasks EXCEPT
                                  ![tasks[t].aid] = ScheduledAfterDone(@, t)]
        /\ scheduler_tasks' = [a \in Aids |-> scheduler_tasks[a] \ {t}]
        /\ UNCHANGED <<regVars, subVars, posted, agentVars, msgVars, brokerVars,
                       shutdowns, scheduler_stopped, waits>>

\* the tasks of an agent that were scheduled through schedule_task and have
\* not ended
Running(a) == {t \in DOMAIN tasks : tasks[t].aid = a /\ tasks[t].state = "running"}

\* tasks_complete: await self._scheduler.tasks_complete() returns once the
\* Scheduler's active set is empty (Scheduler is not part of the sources at
\* hand); nothing is cancelled
tasks_complete ==
    \E a \in Aids :
        /\ loopState[a] # "none"
        /\ scheduler_tasks[a] = {}
        /\ waits' = waits \cup {[aid |-> a, running |-> Running(a)]}
        /\ UNCHANGED <<regVars, subVars, posted, agentVars, msgVars, brokerVars,
                       shutdowns, scheduler_stopped, scheduler_tasks, _scheduled_tasks, tasks>>

\* --------------------------------------------------------- MQTT topics
\* paho.topic_matches_sub(sub, topic): "+" matches one level, "#" the rest
RECURSIVE topic_matches_sub(_, _)
topic_matches_sub(sub, topic) ==
    IF sub = <<>> THEN topic = <<>>
    ELSE IF Head(sub) = "#" THEN TRUE
    ELSE IF topic = <<>> THEN FALSE
    ELSE IF Head(sub) = "+" \/ Head(sub) = Head(topic)
         THEN topic_matches_sub(Tail(sub), Tail(topic))
         ELSE FALSE

\* ------------------------------------------------------------ messages
\* a decoded message object: an ACL envelope naming a receiver, or plain content
Message(id, acl, rid) == [id |-> id, acl |-> acl, rid |-> rid]
Meta(topic, qos, retain, receiver_id) ==
    [network_protocol |-> "mqtt", topic |-> topic, qos |-> qos, retain |-> retain,
     receiver_id |-> receiver_id]
Entry(priority, content, meta) == [priority |-> priority, content |-> content, meta |-> meta]

\* message.split_content_and_meta() and meta.update(msg_meta)
HasSplit(message) == message.acl
SplitContent(message) == Message(message.id, FALSE, None)
MetaUpdate(meta, message) == [meta EXCEPT !.receiver_id = message.rid]

\* decode_mqtt_msg: the class bound to the first matching subscription decides
\* whether the envelope's meta is extracted here (raised: extract_meta is
\* called on an object that is no ACL message)
MatchedClass(topic) ==
    IF \E sub \in DOMAIN subscriptions_to_class : topic_matches_sub(sub, topic)
    THEN "ACLMessage" ELSE NoClass

DecodedMeta(topic, decoded) ==
    IF MatchedClass(topic) = "ACLMessage"
    THEN [raised |-> ~decoded.acl, receiver_id |-> decoded.rid]
    ELSE [raised |-> FALSE, receiver_id |-> None]

\* self.codec.decode(payload) raises on a payload it cannot decode; nothing in
\* decode_mqtt_msg or on_msg catches it
DecodeError == [raised |-> TRUE, receiver_id |-> None]

\* the exception that leaves on_msg
Raised(decodable) == IF decodable THEN "AttributeError" ELSE "DecodeError"

\* an exception leaves on_msg inside the paho network thread: paho logs it
\* and, unless the client was set up with suppress_exceptions, raises it
\* again, which ends the thread
CallbackRaised(thread, exception, survives) == IF survives THEN thread ELSE exception

\* on_msg (network thread): meta from the broker message and the codec; the
\* entry is handed to the loop with call_soon_threadsafe(inbox.put_nowait, ...)
on_msg ==
    /\ running
    /\ msgCount < MaxMsgs
    /\ netLoop = "running"
    /\ \E topic \in MsgTopics, acl \in BOOLEAN, rid \in Aids \cup {None}, decodable \in BOOLEAN :
        /\ (~acl => rid = None)
        /\ (~decodable => ~acl)
        /\ LET decoded == Message(msgCount + 1, acl, rid)
               msg_meta == IF decodable THEN DecodedMeta(topic, decoded) ELSE DecodeError
           IN  IF msg_meta.raised
               THEN /\ posted' = posted
                    /\ \E survives \in BOOLEAN :
                         netLoop' = CallbackRaised(netLoop, Raised(decodable), survives)
               ELSE /\ posted' = Append(posted,
                                    [kind |-> "put",
                                     entry |-> Entry(0, decoded,
                                                     Meta(topic, 0, FALSE, msg_meta.receiver_id))])
                    /\ netLoop' = netLoop
    /\ msgCount' = msgCount + 1
    /\ UNCHANGED <<regVars, subVars, agentVars, inbox, sends, published>>
    /\ UNCHANGED <<lifeVars, subscribed>>

\* _handle_msg: the agents whose inbox gets the entry
InboxReceiver(meta) ==
    IF meta.receiver_id # None /\ meta.receiver_id \in agents THEN {meta.receiver_id} ELSE {}

\* faulty variant: the loop over the subscriptions stops at the first match
SubscribedReceiversFirstMatch(topic) ==
    LET matching == {x \in DOMAIN additional_subscriptions : topic_matches_sub(x, topic)}
    IN  IF matching = {} THEN {}
        ELSE additional_subscriptions[CHOOSE x \in matching : TRUE]

SubscribedReceivers(topic) ==
    UNION {additional_subscriptions[sub] :
             sub \in {x \in DOMAIN additional_subscriptions : topic_matches_sub(x, topic)}}

\* faulty variant: the inbox topic falls through to the subscription lookup as well
ReceiversFallThrough(topic, meta) ==
    IF topic = InboxTopic THEN InboxReceiver(meta) \cup SubscribedReceivers(topic)
    ELSE SubscribedReceivers(topic)

Receivers(topic, meta) ==
    IF topic = InboxTopic THEN InboxReceiver(meta) ELSE SubscribedReceivers(topic)

\* receiver.inbox.put((priority, msg_content, meta)) for every receiver
PutAll(inboxes, receivers, entry) ==
    [a \in Aids |-> IF a \in receivers THEN Append(inboxes[a], entry) ELSE inboxes[a]]

\* the base container's intake loop (not part of the sources at hand) takes
\* the entries of Container.inbox in order and runs _handle_msg on each
IntakeNext(q) == Head(q)
IntakeRest(q) == Tail(q)

\* _handle_msg on the next intake entry.  self._agents[receiver_id] raises
\* KeyError for an id that is not registered: the receivers iterated before
\* it have got the entry.
_handle_msg ==
    /\ inbox # <<>>
    /\ inbox' = IntakeRest(inbox)
    /\ LET e == IntakeNext(inbox)
           topic == e.meta.topic
           meta == IF HasSplit(e.content) THEN MetaUpdate(e.meta, e.content) ELSE e.meta
           msg_content == IF HasSplit(e.content) THEN SplitContent(e.content) ELSE e.content
           receivers == Receivers(topic, meta)
           entry == Entry(e.priority, msg_content, meta)
       IN  \E got \in SUBSET receivers :
             /\ IF receivers \subseteq agents THEN got = receivers
                ELSE got \subseteq agents /\ got # receivers
             /\ agentInbox' = PutAll(agentInbox, got, entry)
             /\ putLog' = PutAll(putLog, got, entry)
    /\ UNCHANGED <<regVars, subVars, posted, loopState, stopped, handled,
                   msgCount, sends, published>>
    /\ UNCHANGED <<lifeVars, brokerVars>>

\* --------------------------------------------------------- send_message
\* the options of one send_message call: {} is [qos |-> 0, retain |-> FALSE]
\* (both fields are read with .get and these defaults)
Kwargs(qos, retain) == [qos |-> qos, retain |-> retain]
NoKwargs == Kwargs(0, FALSE)
SendOptions == {Kwargs(0, FALSE), Kwargs(1, FALSE), Kwargs(1, TRUE)}
SendAddrs == {InboxTopic, <<"t">>}

\* actual_mqtt_kwargs = mqtt_kwargs if kwargs is None else kwargs
\* (**kwargs is a dict, never None)
ActualMqttKwargs(mqtt_kwargs, kwargs) == kwargs

\* self._create_acl(content, receiver_addr, receiver_id, acl_metadata)
CreateAcl(content, receiver_id) == Message(content.id, TRUE, receiver_id)

\* self.mqtt_client.publish(topic, encoded_msg): qos and retain are paho's defaults
PublishCall(topic, message, actual_mqtt_kwargs) ==
    [topic |-> topic, id |-> message.id, qos |-> 0, retain |-> FALSE]

\* the internal path: addr is set, the message goes to it, retain is not asked for
IsInternal(receiver_addr, actual_mqtt_kwargs) ==
    receiver_addr = InboxTopic /\ ~actual_mqtt_kwargs.retain

\* the entry the internal path puts into the container's intake queue
InternalEntry(message, actual_mqtt_kwargs) ==
    LET meta == Meta(InboxTopic, actual_mqtt_kwargs.qos, FALSE, None)
    IN  IF HasSplit(message)
        THEN Entry(0, SplitContent(message), MetaUpdate(meta, message))
        ELSE Entry(0, message, meta)

send_message ==
    /\ msgCount < MaxMsgs
    /\ \E receiver_addr \in SendAddrs, receiver_id \in Aids \cup {None},
          create_acl \in BOOLEAN, options \in SendOptions, via \in {"kwargs", "mqtt_kwargs"} :
        /\ (via = "mqtt_kwargs" => options # NoKwargs)
        /\ LET content == Message(msgCount + 1, FALSE, None)
               message == IF create_acl THEN CreateAcl(content, receiver_id) ELSE content
               kwargs == IF via = "kwargs" THEN options ELSE NoKwargs
               mqtt_kwargs == IF via = "mqtt_kwargs" THEN options ELSE NoKwargs
               actual == ActualMqttKwargs(mqtt_kwargs, kwargs)
               internal == IsInternal(receiver_addr, actual)
           IN  /\ inbox' = IF internal THEN Append(inbox, InternalEntry(message, actual))
                           ELSE inbox
               /\ published' = IF internal THEN published
                               ELSE Append(published, PublishCall(receiver_addr, message, actual))
               /\ sends' = Append(sends,
                             [id |-> msgCount + 1, receiver_addr |-> receiver_addr,
                              receiver_id |-> receiver_id, create_acl |-> create_acl,
                              qos |-> options.qos, retain |-> options.retain, via |-> via,
                              registered |-> receiver_id \in agents,
                              internal |-> internal])
    /\ msgCount' = msgCount + 1
    /\ UNCHANGED <<regVars, subVars, posted, agentVars>>
    /\ UNCHANGED <<lifeVars, brokerVars>>

\* ------------------------------------------------------ the agent's loop
Priorities == {0, 1}

\* an entry put straight into Agent.inbox (the queue is a public attribute)
inbox_put ==
    /\ msgCount < MaxMsgs
    /\ \E a \in Aids, priority \in Priorities :
        /\ loopState[a] # "none"
        /\ LET entry == Entry(priority, Message(msgCount + 1, FALSE, None),
                              Meta(InboxTopic, 0, FALSE, a))
           IN  /\ agentInbox' = PutAll(agentInbox, {a}, entry)
               /\ putLog' = PutAll(putLog, {a}, entry)
    /\ msgCount' = msgCount + 1
    /\ UNCHANGED <<regVars, subVars, posted, loopState, stopped, handled,
                   inbox, sends, published>>
    /\ UNCHANGED <<lifeVars, brokerVars>>

\* faulty variant: the queue hands out the entry with the lowest priority number first
QueueGetLowestPriority(q) ==
    LET first == CHOOSE i \in DOMAIN q : \A j \in DOMAIN q : q[i].priority <= q[j].priority
    IN  q[first]

\* msg = await self.inbox.get() on an asyncio.Queue
QueueGet(q) == Head(q)
QueueRest(q) == Tail(q)

\* meta['priority'] = priority
WithPriority(meta, priority) ==
    [k \in (DOMAIN meta) \cup {"priority"} |-> IF k = "priority" THEN priority ELSE meta[k]]

\* faulty variant: a handler fault ends the consumer task of every agent
LoopsAfterRaiseAll(loops, a) ==
    [b \in Aids |-> IF loops[b] = "running" THEN "failed" ELSE loops[b]]

\* the exception leaves the coroutine: the task of this agent is done and holds
\* the exception (raise_exceptions logs it and raises it into the loop)
LoopsAfterRaise(loops, a) == [loops EXCEPT ![a] = "failed"]

\* _check_inbox: one turn of the loop of agent a; a handler that raises ends
\* the task
CheckInbox(a, raises) ==
    /\ loopState[a] = "running"
    /\ agentInbox[a] # <<>>
    /\ LET msg == QueueGet(agentInbox[a])
       IN  handled' = [handled EXCEPT ![a] =
                         Append(@, [content |-> msg.content,
                                    meta |-> WithPriority(msg.meta, msg.priority)])]
    /\ agentInbox' = [agentInbox EXCEPT ![a] = QueueRest(@)]
    /\ loopState' = IF raises THEN LoopsAfterRaise(loopState, a) ELSE loopState
    /\ UNCHANGED <<regVars, subVars, posted, stopped, putLog, msgVars>>
    /\ UNCHANGED <<lifeVars, brokerVars>>

_check_inbox == \E a \in Aids, raises \in BOOLEAN : CheckInbox(a, raises)

\* ------------------------------------------------------ specifications
\* the subscription protocol: registry, subscribe calls, SUBACKs, deregistration
Next ==
    \/ Register
    \/ subscribe_for_agent
    \/ SubscribeResume
    \/ on_sub
    \/ RunPosted
    \/ Deregister
    \/ AgentShutdown
    \/ ShutdownResume

Spec == Init /\ [][Next]_vars

\* routing: the subscription table is built and changed while messages arrive
\* from the broker
NextRoute ==
    \/ Register
    \/ subscribe_for_agent
    \/ Deregister
    \/ on_msg
    \/ RunPosted
    \/ _handle_msg

SpecRoute == Init /\ [][NextRoute]_vars

\* sending: send_message, its internal path through the intake queue, and the
\* broker's publish
NextSend ==
    \/ Register
    \/ Deregister
    \/ send_message
    \/ _handle_msg

SpecSend == Init /\ [][NextSend]_vars

\* the agent's consumer loop, fed by the container and by direct puts
NextAgent ==
    \/ Register
    \/ on_msg
    \/ RunPosted
    \/ _handle_msg
    \/ inbox_put
    \/ _check_inbox
    \/ AgentShutdown

SpecAgent == Init /\ [][NextAgent]_vars

\* the two callbacks of the network thread and the loop that takes over
NextBridge ==
    \/ Register
    \/ subscribe_for_agent
    \/ SubscribeResume
    \/ on_sub
    \/ on_msg
    \/ RunPosted

SpecBridge == Init /\ [][NextBridge]_vars

\* subscribing under a broker that acknowledges every accepted subscribe and
\* a loop that runs what is posted to it and resumes what can be resumed
NextLive ==
    \/ Register
    \/ subscribe_for_agent
    \/ SubscribeResume
    \/ on_sub
    \/ RunPosted

SpecLive ==
    /\ Init /\ [][NextLive]_vars
    /\ WF_vars(on_sub)
    /\ WF_vars(RunPosted)
    /\ WF_vars(SubscribeResume)

\* scheduled tasks and the agent's shutdown
NextTasks ==
    \/ Register
    \/ schedule_task
    \/ TaskEnds
    \/ tasks_complete
    \/ AgentShutdown
    \/ ShutdownResume

SpecTasks == Init /\ [][NextTasks]_vars

\* the event loop runs every task that is ready: a consumer task whose inbox
\* holds an entry gets its turn, and so does the container's intake task
SpecAgentFair ==
    /\ SpecAgent
    /\ \A a \in Aids : WF_vars(\E raises \in BOOLEAN : CheckInbox(a, raises))
    /\ WF_vars(RunPosted)
    /\ WF_vars(_handle_msg)

\* ================================================================ claims
Pending == {f \in DOMAIN futures : futures[f] = "pending"}

\* C1: in every reachable state at most one Future created by
\* subscribe_for_agent is unresolved.
C1_AtMostOnePending == Cardinality(Pending) <= 1

\* C2: a subscribe_for_agent call that suspended on its Future has returned
\* only if the SUBACK of its own subscribe call has reached on_sub.
C2_ReturnsAfterOwnAck ==
    \A c \in DOMAIN calls :
        (calls[c].pc = "returned" /\ calls[c].fut # None /\ calls[c].result)
            => c \in ackSeen

\* C3: reference counting.  A subscribe_for_agent call for a pattern that has
\* an entry returns True and issues no broker call, a call for a pattern
\* without entry issues exactly one subscribe; deregistering an agent issues no
\* unsubscribe for a pattern that keeps another subscriber and exactly one
\* unsubscribe, removing the entry, for every pattern it was the last
\* subscriber of; so every entry stands for exactly one subscribe call that no
\* unsubscribe has followed.
C3_SubscribeStep ==
    Len(calls') = Len(calls) + 1 =>
        LET r == Last(calls')
        IN  /\ unsubCalls' = unsubCalls
            /\ r.pc = "raised" => subCalls' = subCalls
            /\ (r.pc # "raised" /\ r.topic \in DOMAIN additional_subscriptions) =>
                   /\ subCalls' = subCalls
                   /\ r.pc = "returned" /\ r.result
                   /\ additional_subscriptions'[r.topic] =
                          additional_subscriptions[r.topic] \cup {r.aid}
            /\ (r.pc # "raised" /\ r.topic \notin DOMAIN additional_subscriptions) =>
                   /\ subCalls' = [subCalls EXCEPT ![r.topic] = @ + 1]
                   /\ additional_subscriptions'[r.topic] = {r.aid}

C3_DeregisterStep ==
    \A a \in agents \ agents' :
        /\ subCalls' = subCalls
        /\ \A t \in SubTopics :
            IF t \notin DOMAIN additional_subscriptions
            THEN unsubCalls'[t] = unsubCalls[t] /\ t \notin DOMAIN additional_subscriptions'
            ELSE IF additional_subscriptions[t] \ {a} # {}
            THEN /\ unsubCalls'[t] = unsubCalls[t]
                 /\ t \in DOMAIN additional_subscriptions'
                 /\ additional_subscriptions'[t] = additional_subscriptions[t] \ {a}
            ELSE /\ unsubCalls'[t] = unsubCalls[t] + 1
                 /\ t \notin DOMAIN additional_subscriptions'

C3_OtherStep ==
    (Len(calls') = Len(calls) /\ agents \subseteq agents') =>
        subCalls' = subCalls /\ unsubCalls' = unsubCalls

C3_OneSubscribePerEntry ==
    \A t \in SubTopics :
        subCalls[t] - unsubCalls[t] = IF t \in DOMAIN additional_subscriptions THEN 1 ELSE 0

\* C3 as a property of every step: the three step conditions and the count
C3_ReferenceCounting ==
    [][/\ C3_SubscribeStep
       /\ C3_DeregisterStep
       /\ C3_OtherStep
       /\ (C3_OneSubscribePerEntry)']_vars

\* two agents subscribed to one new pattern and both were deregistered: one
\* subscribe and one unsubscribe were issued
C3_Witness ==
    /\ Len(calls) = 2
    /\ calls[1].topic = calls[2].topic
    /\ calls[1].aid # calls[2].aid
    /\ calls[1].fut # None /\ calls[2].pc = "returned" /\ calls[2].result
    /\ agents = {}
    /\ subCalls[calls[1].topic] = 1
    /\ unsubCalls[calls[1].topic] = 1

\* C4: every aid in an agent set of additional_subscriptions is a key of the
\* registry.
C4_SubscribersRegistered ==
    \A t \in DOMAIN additional_subscriptions : additional_subscriptions[t] \subseteq agents

\* an agent was shut down while its subscribe_for_agent call still waits for
\* the SUBACK, and another agent holds a subscription
C4_Witness ==
    /\ \E c \in DOMAIN calls :
        calls[c].pc = "awaiting" /\ calls[c].aid \notin agents /\ stopped[calls[c].aid]
    /\ \E t \in DOMAIN additional_subscriptions : additional_subscriptions[t] # {}

\* C5: the inbox address is never a key of additional_subscriptions.
C5_InboxTopicNotSubscribed == InboxTopic \notin DOMAIN additional_subscriptions

\* MQTT wildcard rules, stated level by level: "#" as the last level of the
\* pattern matches any remainder (also none), "+" matches exactly one level
MqttMatches(pattern, topic) ==
    LET n == Len(pattern)
    IN  IF n > 0 /\ pattern[n] = "#"
        THEN /\ Len(topic) >= n - 1
             /\ \A i \in 1 .. (n - 1) : pattern[i] = "+" \/ pattern[i] = topic[i]
        ELSE /\ Len(topic) = n
             /\ \A i \in 1 .. n : pattern[i] = "+" \/ pattern[i] = topic[i]

\* the agents holding a subscription whose pattern matches the topic
Subscribers(subs, topic) ==
    {a \in Aids : \E pattern \in DOMAIN subs : a \in subs[pattern] /\ MqttMatches(pattern, topic)}

\* the step in which _handle_msg takes the head of the intake queue
Routed == Len(inbox') < Len(inbox)

\* C6: a message on a topic other than the inbox address is put exactly once,
\* as one and the same (priority, content, meta) entry, into the inbox of every
\* agent that subscribes a pattern matching the topic, and into no other inbox
\* (none at all if no pattern matches); a subscribe_for_agent call removes no
\* agent from the recipients of any topic.
C6_RouteStep ==
    (Routed /\ Head(inbox).meta.topic # InboxTopic) =>
        LET e == Head(inbox)
            recipients == Subscribers(additional_subscriptions, e.meta.topic)
        IN  /\ \A a \in Aids \ recipients : agentInbox'[a] = agentInbox[a]
            /\ \A a \in recipients : Len(agentInbox'[a]) = Len(agentInbox[a]) + 1
            /\ \A a \in recipients :
                /\ SubSeq(agentInbox'[a], 1, Len(agentInbox[a])) = agentInbox[a]
                /\ Last(agentInbox'[a]).priority = e.priority
                /\ Last(agentInbox'[a]).content.id = e.content.id
                /\ Last(agentInbox'[a]).meta.topic = e.meta.topic
                /\ \A b \in recipients : Last(agentInbox'[b]) = Last(agentInbox'[a])

C6_SubscribeStep ==
    Len(calls') = Len(calls) + 1 =>
        \A topic \in MsgTopics :
            Subscribers(additional_subscriptions, topic)
                \subseteq Subscribers(additional_subscriptions', topic)

\* C6 as a property of every step: fan-out of a routed message, and recipients
\* only grow with a subscribe_for_agent call
C6_FanOut == [][C6_RouteStep /\ C6_SubscribeStep]_vars

\* both agents received the same entry on "s/a" through subscriptions, the
\* wildcard pattern "s/+" among them
C6_Witness ==
    /\ agentInbox[1] # <<>>
    /\ agentInbox[2] # <<>>
    /\ Head(agentInbox[1]) = Head(agentInbox[2])
    /\ Head(agentInbox[1]).meta.topic = <<"s", "a">>
    /\ <<"s", "+">> \in DOMAIN additional_subscriptions

\* C7: a message on the inbox address goes to the inbox of the registered
\* agent that the merged meta names as receiver_id, with meta.topic the inbox
\* address, and to no other inbox; without such a receiver no inbox changes.
\* Subscriptions matching the inbox address play no part.
C7_DirectStep ==
    (Routed /\ Head(inbox).meta.topic = InboxTopic) =>
        LET e == Head(inbox)
            receiver_id == IF e.content.acl THEN e.content.rid ELSE e.meta.receiver_id
        IN  IF receiver_id # None /\ receiver_id \in agents
            THEN /\ Len(agentInbox'[receiver_id]) = Len(agentInbox[receiver_id]) + 1
                 /\ SubSeq(agentInbox'[receiver_id], 1, Len(agentInbox[receiver_id]))
                        = agentInbox[receiver_id]
                 /\ Last(agentInbox'[receiver_id]).meta.topic = InboxTopic
                 /\ Last(agentInbox'[receiver_id]).meta.receiver_id = receiver_id
                 /\ Last(agentInbox'[receiver_id]).content.id = e.content.id
                 /\ Last(agentInbox'[receiver_id]).priority = e.priority
                 /\ \A a \in Aids \ {receiver_id} : agentInbox'[a] = agentInbox[a]
            ELSE agentInbox' = agentInbox

\* C7 as a property of every step
C7_DirectDelivery == [][C7_DirectStep]_vars

\* an agent got a message on the inbox address while the other agent, whose
\* "#" subscription matches the inbox address, got nothing
C7_Witness ==
    \E a, b \in Aids :
        /\ a # b
        /\ <<"#">> \in DOMAIN additional_subscriptions
        /\ b \in additional_subscriptions[<<"#">>]
        /\ a \notin additional_subscriptions[<<"#">>]
        /\ agentInbox[b] = <<>>
        /\ agentInbox[a] # <<>>
        /\ Head(agentInbox[a]).meta.topic = InboxTopic
        /\ Head(agentInbox[a]).meta.receiver_id = a

\* the content ids found in a queue of entries
Ids(q) == {q[i].content.id : i \in DOMAIN q}
WasPublished(id) == \E j \in DOMAIN published : published[j].id = id

\* C8: a send to the container's own address naming a registered agent:
\* without retain the message is on its way to (intake queue) or in that
\* agent's inbox, in no other inbox, and nothing was published; with retain
\* it was published and nothing was enqueued locally.
C8_SelfSend ==
    \A i \in DOMAIN sends :
        LET s == sends[i]
        IN  (s.receiver_addr = InboxTopic /\ s.registered /\ s.receiver_id \in agents) =>
                IF s.retain
                THEN /\ WasPublished(s.id)
                     /\ s.id \notin Ids(inbox)
                     /\ \A a \in Aids : s.id \notin Ids(putLog[a])
                ELSE /\ ~WasPublished(s.id)
                     /\ s.id \in Ids(inbox) \cup Ids(putLog[s.receiver_id])
                     /\ \A a \in Aids \ {s.receiver_id} : s.id \notin Ids(putLog[a])

\* C9: every send that took the external path led to a publish call with the
\* qos and the retain flag the caller asked for.
C9_PublishOptions ==
    \A i \in DOMAIN sends :
        ~sends[i].internal =>
            \E j \in DOMAIN published :
                /\ published[j].id = sends[i].id
                /\ published[j].topic = sends[i].receiver_addr
                /\ published[j].qos = sends[i].qos
                /\ published[j].retain = sends[i].retain

C11_FaultStep ==
    \A e \in Aids :
        (loopState[e] = "running" /\ loopState'[e] = "failed") =>
            /\ \A f \in Aids \ {e} :
                /\ loopState'[f] = loopState[f]
                /\ agentInbox'[f] = agentInbox[f]
                /\ handled'[f] = handled[f]
            /\ UNCHANGED <<regVars, inbox, posted>>

\* a failed task stays failed, handles nothing any more and keeps what is queued
C11_AfterFault ==
    \A e \in Aids :
        loopState[e] = "failed" =>
            /\ loopState'[e] = "failed"
            /\ handled'[e] = handled[e]
            /\ Len(agentInbox'[e]) >= Len(agentInbox[e])
            /\ SubSeq(agentInbox'[e], 1, Len(agentInbox[e])) = agentInbox[e]

\* every entry put into the inbox of an agent whose task runs is handled,
\* unless that agent's own task ends first
C11_OthersHandle ==
    \A f \in Aids : \A n \in 1 .. MaxMsgs :
        (Len(putLog[f]) >= n /\ loopState[f] = "running")
            ~> (Len(handled[f]) >= n \/ loopState[f] # "running")

\* C11: handler fault isolation.  When the handler of an agent raises, its
\* consumer task ends in the failed state (observable through the task's
\* exception), it handles nothing afterwards although entries may be queued,
\* no other agent's task is affected and each of them goes on handling what
\* is put into its inbox, and the container goes on routing its intake queue.
C11_FaultIsolation ==
    /\ [][C11_FaultStep /\ C11_AfterFault]_vars
    /\ C11_OthersHandle
    /\ (inbox # <<>>) ~> (inbox = <<>>)

\* the task of e has failed; f, whose task runs, has handled an entry created
\* after the one e failed on
C11_Witness ==
    \E e, f \in Aids :
        /\ e # f
        /\ loopState[e] = "failed"
        /\ loopState[f] = "running"
        /\ handled[f] # <<>>
        /\ Last(handled[f]).content.id > Last(handled[e]).content.id

\* C12: whenever a shutdown() call of an agent has returned, Scheduler.stop()
\* has been called on the agent's Scheduler and none of the agent's scheduled
\* tasks is still running (the last of the steps stopped, deregister, cancel,
\* await, stop has been performed).
C12_ShutdownStopsScheduler ==
    \A a \in Aids :
        (\E i \in DOMAIN shutdowns[a] : shutdowns[a][i] = "returned") =>
            /\ stopped[a]
            /\ a \notin agents
            /\ loopState[a] = "cancelled"
            /\ scheduler_stopped[a]
            /\ Running(a) = {}

\* C13: every task scheduled through schedule_task is in the active set that
\* tasks_complete waits on until it ends, and a tasks_complete call returns
\* only when every such task of the agent has ended.
C13_TasksComplete ==
    /\ \A a \in Aids : Running(a) \subseteq scheduler_tasks[a]
    /\ \A w \in waits : w.running = {}

\* the step of a subscribe_for_agent call
Called == Len(calls') = Len(calls) + 1

\* C14: a subscribe_for_agent call with an aid that is not in the registry
\* raises and leaves additional_subscriptions, subscriptions_to_class and the
\* pending handle as they were, and issues no broker call, whether or not an
\* expected class is given.
C14_UnknownAgentStep ==
    (Called /\ Last(calls').aid \notin agents) =>
        /\ Last(calls').pc = "raised"
        /\ UNCHANGED <<additional_subscriptions, subscriptions_to_class, pending_sub_request,
                       futures, subCalls, unsubCalls, acks, subscribed, agents>>

C14_UnknownAgent == [][C14_UnknownAgentStep]_vars

\* a call raised for an aid that was deregistered before, while the container
\* holds a subscription and a pending handle and no expected class is stored
C14_Witness ==
    /\ Len(calls) = 2
    /\ calls[2].pc = "raised"
    /\ calls[2].aid < aidCounter
    /\ DOMAIN additional_subscriptions # {}
    /\ pending_sub_request # None
    /\ DOMAIN subscriptions_to_class = {}

\* the broker was called and owes no SUBACK for the call: it rejected it
Rejected == Called /\ subCalls' # subCalls /\ acks' = acks

\* C15: when the broker rejects the subscribe call of subscribe_for_agent,
\* the call returns False in the same step (it does not suspend), the
\* Future it created is resolved, and no Future is unresolved that was not
\* unresolved before.
C15_RejectedStep ==
    Rejected =>
        LET r == Last(calls')
        IN  /\ r.pc = "returned"
            /\ r.result = FALSE
            /\ r.fut = Len(futures')
            /\ futures'[r.fut] = "done"
            /\ pending_sub_request' = r.fut
            /\ {f \in DOMAIN futures' : futures'[f] = "pending"} \subseteq Pending

C15_RejectedReturnsFalse == [][C15_RejectedStep]_vars

\* a rejected call has returned False; its Future is resolved
C15_Witness ==
    \E c \in DOMAIN calls :
        /\ calls[c].fut # None
        /\ calls[c].pc = "returned"
        /\ ~calls[c].result
        /\ futures[calls[c].fut] = "done"
        /\ Pending = {}

\* a shutdown() call of agent a has returned
HasShutDown(a) == \E i \in DOMAIN shutdowns[a] : shutdowns[a][i] = "returned"

\* C16: a shutdown() call on an agent whose earlier shutdown() has returned
\* ends without error and changes nothing: the registry,
\* additional_subscriptions and the broker calls stay as the first call left
\* them, and so do the stopped signal and the consumer task.
C16_SecondShutdownStep ==
    \A a \in Aids :
        (HasShutDown(a) /\ shutdowns'[a] # shutdowns[a]) =>
            /\ Last(shutdowns'[a]) # "raised"
            /\ UNCHANGED <<agents, additional_subscriptions, subCalls, unsubCalls,
                           subscribed, stopped, loopState>>

C16_ShutdownIdempotent == [][C16_SecondShutdownStep]_vars

\* a step of the network thread: a SUBACK is delivered to on_sub, or a broker
\* message to on_msg
OnSubStep == Len(acks') < Len(acks)
OnMsgStep == msgCount' > msgCount /\ sends' = sends /\ putLog' = putLog

\* the network thread changes nothing of the runtime itself: at most one
\* callback is appended to the loop's queue
C17_BrokerThreadStep ==
    (OnSubStep \/ OnMsgStep) =>
        /\ UNCHANGED <<inbox, agentInbox, agents, additional_subscriptions,
                       futures, pending_sub_request, calls, handled, loopState>>
        /\ IF posted' = posted THEN TRUE
           ELSE /\ Len(posted') = Len(posted) + 1
                /\ SubSeq(posted', 1, Len(posted)) = posted
                /\ Last(posted').kind = IF OnSubStep THEN "set_result" ELSE "put"

\* a pending Future is resolved, and a broker message enters the intake
\* queue, only in the step in which the loop runs the posted callback
C17_LoopStep ==
    /\ (\E f \in Pending : futures'[f] = "done") =>
           /\ posted # <<>>
           /\ posted' = Tail(posted)
           /\ Head(posted).kind = "set_result"
           /\ futures' = [futures EXCEPT ![Head(posted).fut] = "done"]
    /\ (Len(inbox') > Len(inbox) /\ sends' = sends) =>
           /\ posted # <<>>
           /\ posted' = Tail(posted)
           /\ Head(posted).kind = "put"
           /\ inbox' = Append(inbox, Head(posted).entry)

\* C17: no step of the broker thread changes the intake queue, an agent
\* inbox, the registry, additional_subscriptions or a pending handle; on_msg
\* reaches the intake queue and on_sub the pending handle only through a
\* callback posted to the loop, which the loop runs in a step of its own.
C17_BrokerThreadPosts == [][C17_BrokerThreadStep /\ C17_LoopStep]_vars

\* both callbacks have handed over: a set_result for a Future that is still
\* pending and a put whose entry is not yet in the intake queue wait in the
\* loop's queue
C17_Witness ==
    /\ Len(posted) = 2
    /\ \E i, j \in DOMAIN posted :
        /\ posted[i].kind = "set_result"
        /\ futures[posted[i].fut] = "pending"
        /\ posted[j].kind = "put"
    /\ inbox = <<>>

\* the step of an arrival whose callback raised: nothing is enqueued or posted
C18_DroppedStep ==
    (OnMsgStep /\ posted' = posted) => UNCHANGED <<inbox, agentInbox>>

\* C18: a broker message whose payload cannot be decoded is dropped (nothing
\* is posted or enqueued for it, no agent inbox changes) and does not stop
\* the container: the network thread is not ended by the decode error, so
\* messages arriving afterwards are still delivered to on_msg.
C18_UndecodableDropped ==
    /\ [][C18_DroppedStep]_vars
    /\ [](netLoop # "DecodeError")

\* a pending Future that is neither the current handle nor the target of a
\* posted set_result: no step resolves it, whatever calls follow
Orphaned(f) ==
    /\ f \in Pending
    /\ pending_sub_request # f
    /\ \A i \in DOMAIN posted : posted[i].kind = "set_result" => posted[i].fut # f

OrphanedStays == [][\A f \in 1 .. MaxCalls : Orphaned(f) => Orphaned(f)']_vars

\* C19: every subscribe_for_agent call that suspended on its Future
\* eventually returns, given that every SUBACK is delivered and the loop runs
\* the posted callbacks.
C19_SubscribeReturns ==
    \A c \in 1 .. MaxCalls :
        (Len(calls) >= c /\ calls[c].pc = "awaiting")
            ~> (Len(calls) >= c /\ calls[c].pc = "returned")

\* C20: whenever no subscribe_for_agent call is in progress, every pattern
\* that is a key of additional_subscriptions is subscribed at the broker (the
\* broker accepted a subscribe for it and no unsubscribe followed); so a call
\* that returned True for a pattern found or made it subscribed.
C20_TableAgreesWithBroker ==
    (\A c \in DOMAIN calls : calls[c].pc # "awaiting") =>
        DOMAIN additional_subscriptions \subseteq subscribed
====
